---- MODULE Spec2Model ----
(***************************************************************************)
(* A model of streamlit_app.py, the weather monitoring page: the weather   *)
(* code table, the two alert classifiers, the weather and the geocoding    *)
(* clients, and main(), the render pass Streamlit re-executes on every    *)
(* user interaction.                                                       *)
(*                                                                         *)
(* Conventions.  Temperatures and wind speeds are Python floats; they are  *)
(* modelled as integers counting 1/Scale of a unit, so that values lying   *)
(* strictly between two whole numbers exist (Deg(n) is n whole units).     *)
(* The status labels carry an emoji in the source; the module is ASCII,    *)
(* so the label is written without it and the colour, the second           *)
(* component of the pair, is kept.                                         *)
(***************************************************************************)
EXTENDS Integers, Sequences, FiniteSets, TLC

VARIABLES
    \* the pure classifiers (get_alert_status, get_alert_message)
    temp, wind_speed, status, message,
    \* the weather code table (get_weather_description)
    code, description,
    \* the geocoding client (get_location_suggestions)
    query, geo_reply, sugg_call,
    \* main(): the render pass
    session_state, json_error, pc, widget, search_query, idx, ui, http,
    fetch_calls, escaped

vars == <<temp, wind_speed, status, message, code, description,
          query, geo_reply, sugg_call,
          session_state, json_error, pc, widget, search_query, idx, ui, http,
          fetch_calls, escaped>>

alert_vars == <<temp, wind_speed, status, message>>
code_vars == <<code, description>>
sugg_vars == <<query, geo_reply, sugg_call>>
main_vars == <<session_state, json_error, pc, widget, search_query, idx, ui,
               http, fetch_calls, escaped>>

(***************************************************************************)
(* Bounds of the model.                                                    *)
(***************************************************************************)
\* units per degree / per km/h: 2 gives halves
Scale == 2
\* how far, in whole units, the inputs range beyond the extreme thresholds
Margin == 2
\* how far the weather codes range beyond the table's smallest and largest
CodeMargin == 3
\* the longest search text typed
MaxQueryLen == 2
\* the most results a geocoding response carries in the model
MaxResults == 2
\* the most results a geocoding response carries within a render pass
MaxShown == 1

Deg(n) == n * Scale

Temps == Deg(-10 - Margin) .. Deg(40 + Margin)
Winds == 0 .. Deg(20 + Margin)

\* Python's None
None == "None"
\* the value of an output no call has produced yet
Pending == "pending"

(***************************************************************************)
(* The weather code table.                                                 *)
(***************************************************************************)
WEATHER_CODES ==
    (0 :> "Clear sky") @@ (1 :> "Mainly clear") @@ (2 :> "Partly cloudy") @@
    (3 :> "Overcast") @@ (45 :> "Foggy") @@ (48 :> "Depositing rime fog") @@
    (51 :> "Light drizzle") @@ (53 :> "Moderate drizzle") @@
    (55 :> "Dense drizzle") @@ (61 :> "Slight rain") @@
    (63 :> "Moderate rain") @@ (65 :> "Heavy rain") @@ (71 :> "Slight snow") @@
    (73 :> "Moderate snow") @@ (75 :> "Heavy snow") @@ (77 :> "Snow grains") @@
    (80 :> "Slight rain showers") @@ (81 :> "Moderate rain showers") @@
    (82 :> "Violent rainstorm") @@ (85 :> "Slight snow showers") @@
    (86 :> "Heavy snow showers") @@ (95 :> "Thunderstorm") @@
    (96 :> "Thunderstorm with slight hail") @@
    (99 :> "Thunderstorm with heavy hail")

\* a lookup without the default: what WEATHER_CODES[code] would give
get_weather_description_nodefault(c) ==
    IF c \in DOMAIN WEATHER_CODES THEN WEATHER_CODES[c] ELSE None

\* WEATHER_CODES.get(code, 'Unknown')
get_weather_description(c) ==
    IF c \in DOMAIN WEATHER_CODES THEN WEATHER_CODES[c] ELSE "Unknown"

Codes == (0 - CodeMargin) .. (99 + CodeMargin)

(***************************************************************************)
(* The alert classifiers.                                                  *)
(***************************************************************************)
\* the wind thresholds compared with >= instead of >
get_alert_status_inclusive(t, w) ==
    IF t < Deg(-10) \/ t > Deg(40) \/ w >= Deg(20)
    THEN <<"Critical", "red">>
    ELSE IF t < Deg(0) \/ t > Deg(35) \/ w >= Deg(15)
         THEN <<"Warning", "yellow">>
         ELSE <<"Normal", "green">>

get_alert_status(t, w) ==
    IF t < Deg(-10) \/ t > Deg(40) \/ w > Deg(20)
    THEN <<"Critical", "red">>
    ELSE IF t < Deg(0) \/ t > Deg(35) \/ w > Deg(15)
         THEN <<"Warning", "yellow">>
         ELSE <<"Normal", "green">>

\* the rules in another order: the cold warning tested before the high wind
get_alert_message_reordered(t, w) ==
    IF t < Deg(-10) THEN "Extreme cold conditions - Exercise caution"
    ELSE IF t > Deg(40) THEN "Extreme heat conditions - Limit exposure"
    ELSE IF t < Deg(0) THEN "Cold conditions - Take necessary precautions"
    ELSE IF w > Deg(20) THEN "High wind speeds - Operations may be affected"
    ELSE IF t > Deg(35) THEN "Hot conditions - Stay hydrated"
    ELSE IF w > Deg(15) THEN "Moderate wind speeds - Monitor conditions"
    ELSE "Normal operating conditions"

get_alert_message(t, w) ==
    IF t < Deg(-10) THEN "Extreme cold conditions - Exercise caution"
    ELSE IF t > Deg(40) THEN "Extreme heat conditions - Limit exposure"
    ELSE IF w > Deg(20) THEN "High wind speeds - Operations may be affected"
    ELSE IF t < Deg(0) THEN "Cold conditions - Take necessary precautions"
    ELSE IF t > Deg(35) THEN "Hot conditions - Stay hydrated"
    ELSE IF w > Deg(15) THEN "Moderate wind speeds - Monitor conditions"
    ELSE "Normal operating conditions"

(***************************************************************************)
(* The HTTP layer: what the requests library hands to the code.            *)
(*                                                                         *)
(* A reply is the outcome of one requests.get call:                        *)
(*   raised  the exception requests.get itself raises (NoExc: none),       *)
(*   ok      whether the status code is below 400 (response.ok),           *)
(*   parses  whether response.json() can parse the body,                   *)
(*   body    the parsed body.                                              *)
(* An exception is named by its class; ExcClasses gives the classes an     *)
(* "except C" clause matches it by (the class and its bases).              *)
(* response.json() raises, on an unparsable body, requests' own            *)
(* JSONDecodeError (requests >= 2.27: a RequestException and a ValueError) *)
(* or the json module's (older requests: a ValueError only); json_error    *)
(* holds which one the installed library raises.                           *)
(***************************************************************************)
NoExc == "NoExc"

ExcClasses(e) ==
    CASE e = "Timeout" -> {"Timeout", "RequestException", "Exception"}
      [] e = "ConnectionError" ->
             {"ConnectionError", "RequestException", "Exception"}
      [] e = "HTTPError" -> {"HTTPError", "RequestException", "Exception"}
      [] e = "JSONDecodeError" ->
             {"JSONDecodeError", "RequestException", "ValueError", "Exception"}
      [] e = "ValueError" -> {"ValueError", "Exception"}
      [] e = "KeyError" -> {"KeyError", "Exception"}
      [] OTHER -> {}

JsonErrors == {"JSONDecodeError", "ValueError"}

\* requests.get(...); response.raise_for_status(); response.json():
\* the exception the chain raises, or NoExc and the parsed body
get_json(reply, jerr) ==
    IF reply.raised # NoExc THEN [exc |-> reply.raised, value |-> reply.body]
    ELSE IF ~reply.ok THEN [exc |-> "HTTPError", value |-> reply.body]
    ELSE IF ~reply.parses THEN [exc |-> jerr, value |-> reply.body]
    ELSE [exc |-> NoExc, value |-> reply.body]

(***************************************************************************)
(* Weather bodies.  A Python value the weather client returns is a record  *)
(* type, keys, current: None (type "NoneType") or a dict with the         *)
(* top-level keys "keys" and, when "current" is among them, the current    *)
(* conditions.                                                             *)
(***************************************************************************)
NoCurrent ==
    [temperature_2m |-> 0, relative_humidity_2m |-> 0, wind_speed_10m |-> 0,
     weather_code |-> 0]

PyNone == [type |-> "NoneType", keys |-> {}, current |-> NoCurrent]

Truthy(v) == v.type = "dict" /\ v.keys # {}

\* {"current": {...}}: the body the API documents
FullBody(t, h, w, c) ==
    [type |-> "dict", keys |-> {"current"},
     current |-> [temperature_2m |-> t, relative_humidity_2m |-> h,
                  wind_speed_10m |-> w, weather_code |-> c]]

\* a JSON object without the "current" key, e.g. {"error": true, "reason": ..}
ErrorBody == [type |-> "dict", keys |-> {"error", "reason"}, current |-> NoCurrent]

\* the JSON object {}
EmptyBody == [type |-> "dict", keys |-> {}, current |-> NoCurrent]

WeatherBodies ==
    {FullBody(Deg(-15), 40, Deg(5), 71), ErrorBody, EmptyBody}

WeatherReplies ==
    {[raised |-> e, ok |-> FALSE, parses |-> FALSE, body |-> EmptyBody] :
        e \in {"Timeout", "ConnectionError"}}
    \cup {[raised |-> NoExc, ok |-> FALSE, parses |-> TRUE, body |-> ErrorBody]}
    \cup {[raised |-> NoExc, ok |-> TRUE, parses |-> FALSE, body |-> EmptyBody]}
    \cup {[raised |-> NoExc, ok |-> TRUE, parses |-> TRUE, body |-> b] :
            b \in WeatherBodies}

\* the replies drawn in the loop over the preset locations, which draws four:
\* a timeout, an HTTP error status, an unparsable body, the documented body,
\* a body without "current"
PresetReplies ==
    {r \in WeatherReplies :
        /\ r.raised # "ConnectionError"
        /\ ~(r.ok /\ r.parses /\ r.body = EmptyBody)}

\* st.error(...)
Error(text) == [kind |-> "error", text |-> text]

WeatherUrl(lat, lon) == [api |-> "forecast", latitude |-> lat, longitude |-> lon]

\* fetch_weather_data(lat, lon), the single request answered by reply:
\* ret the value returned, errors the st.error messages, requests the
\* requests issued
fetch_weather_data(lat, lon, reply, jerr) ==
    LET r == get_json(reply, jerr)
        requests == <<WeatherUrl(lat, lon)>>
    IN  IF r.exc = NoExc
        THEN [ret |-> r.value, errors |-> <<>>, requests |-> requests]
        ELSE IF "Timeout" \in ExcClasses(r.exc)
        THEN [ret |-> PyNone,
              errors |-> <<Error("Request timed out. Please try again.")>>,
              requests |-> requests]
        ELSE IF "RequestException" \in ExcClasses(r.exc)
        THEN [ret |-> PyNone,
              errors |-> <<Error("Error fetching weather data: " \o r.exc)>>,
              requests |-> requests]
        ELSE \* "ValueError" \in ExcClasses(r.exc): nothing else is raised
             [ret |-> PyNone,
              errors |-> <<Error("Error parsing weather data: " \o r.exc)>>,
              requests |-> requests]

\* weather_card(location_name, weather_data): the exception it raises, or
\* NoExc and the card it renders
weather_card(location_name, weather_data) ==
    IF ~Truthy(weather_data) THEN [exc |-> NoExc, ui |-> <<>>]
    ELSE IF "current" \notin weather_data.keys
    THEN [exc |-> "KeyError", ui |-> <<>>]
    ELSE LET current == weather_data.current
             t == current.temperature_2m
             w == current.wind_speed_10m
         IN  [exc |-> NoExc,
              ui |-> <<[kind |-> "card", text |-> location_name,
                        temperature |-> t,
                        weather |-> get_weather_description(current.weather_code),
                        humidity |-> current.relative_humidity_2m,
                        wind_speed |-> w,
                        status |-> get_alert_status(t, w)[1],
                        message |-> get_alert_message(t, w)]>>]

(***************************************************************************)
(* The geocoding client.  A geocoding body is a JSON object that may carry *)
(* the key "results" (has_results), a list of results; a result has a      *)
(* name, a latitude and a longitude, and admin1 and country when the API   *)
(* knows them (None: the key is absent, result.get gives None).            *)
(* Coordinates are in 1/10000 of a degree.                                 *)
(***************************************************************************)
ResultPool ==
    {[name |-> "Leh", admin1 |-> "Ladakh", country |-> "India",
      latitude |-> 341526, longitude |-> 775771],
     [name |-> "Lens", admin1 |-> None, country |-> "France",
      latitude |-> 504333, longitude |-> 28333],
     [name |-> "Lebanon", admin1 |-> "Ohio", country |-> None,
      latitude |-> 394353, longitude |-> -842030],
     [name |-> "Le", admin1 |-> None, country |-> None,
      latitude |-> 0, longitude |-> 0]}

ResultLists == UNION {[1..n -> ResultPool] : n \in 0..MaxResults}

GeoBodies ==
    {[has_results |-> FALSE, results |-> <<>>]}
    \cup {[has_results |-> TRUE, results |-> rs] : rs \in ResultLists}

NoGeoBody == [has_results |-> FALSE, results |-> <<>>]

GeoRepliesOf(bodies) ==
    {[raised |-> e, ok |-> FALSE, parses |-> FALSE, body |-> NoGeoBody] :
        e \in {"Timeout", "ConnectionError"}}
    \cup {[raised |-> NoExc, ok |-> FALSE, parses |-> TRUE, body |-> NoGeoBody]}
    \cup {[raised |-> NoExc, ok |-> TRUE, parses |-> FALSE, body |-> NoGeoBody]}
    \cup {[raised |-> NoExc, ok |-> TRUE, parses |-> TRUE, body |-> b] :
            b \in bodies}

GeoReplies == GeoRepliesOf(GeoBodies)

GeoUrl(name, count) == [api |-> "geocoding", name |-> name, count |-> count]

\* the text the user has typed after n keystrokes
RECURSIVE Typed(_)
Typed(n) ==
    IF n = 0 THEN ""
    ELSE Typed(n - 1) \o <<"L", "e", "h">>[((n - 1) % 3) + 1]

Queries == {Typed(n) : n \in 0..MaxQueryLen}

\* sep.join(parts)
RECURSIVE join(_, _)
join(sep, parts) ==
    IF Len(parts) = 0 THEN ""
    ELSE IF Len(parts) = 1 THEN parts[1]
    ELSE parts[1] \o sep \o join(sep, Tail(parts))

\* a value result.get(key) gives is truthy: neither None nor ''
TruthyStr(v) == v # None /\ v # ""

\* the country put before the admin area
location_parts_country_first(result) ==
    <<result.name>>
    \o (IF TruthyStr(result.country) THEN <<result.country>> ELSE <<>>)
    \o (IF TruthyStr(result.admin1) THEN <<result.admin1>> ELSE <<>>)

\* location_parts of one result
location_parts(result) ==
    <<result.name>>
    \o (IF TruthyStr(result.admin1) THEN <<result.admin1>> ELSE <<>>)
    \o (IF TruthyStr(result.country) THEN <<result.country>> ELSE <<>>)

\* the loop over data['results']
format_suggestions(results) ==
    [i \in 1..Len(results) |->
        [name |-> join(", ", location_parts(results[i])),
         lat |-> results[i].latitude,
         lon |-> results[i].longitude]]

\* the try block of get_location_suggestions: the exception it raises (NoExc:
\* none), the value it returns, the requests it issues
suggestions_try(q, reply, jerr) ==
    IF Len(q) < 2 THEN [exc |-> NoExc, ret |-> <<>>, requests |-> <<>>]
    ELSE LET r == get_json(reply, jerr)
             requests == <<GeoUrl(q, 5)>>
         IN  IF r.exc # NoExc
             THEN [exc |-> r.exc, ret |-> <<>>, requests |-> requests]
             ELSE IF ~r.value.has_results \/ r.value.results = <<>>
             THEN [exc |-> NoExc, ret |-> <<>>, requests |-> requests]
             ELSE [exc |-> NoExc, ret |-> format_suggestions(r.value.results),
                   requests |-> requests]

\* the handler catching requests' exceptions only
get_location_suggestions_narrow(q, reply, jerr) ==
    LET b == suggestions_try(q, reply, jerr)
    IN  IF b.exc # NoExc /\ "RequestException" \in ExcClasses(b.exc)
        THEN [exc |-> NoExc, ret |-> <<>>, requests |-> b.requests,
              errors |-> <<Error("Error fetching suggestions: " \o b.exc)>>]
        ELSE [exc |-> b.exc, ret |-> b.ret, requests |-> b.requests,
              errors |-> <<>>]

\* get_location_suggestions(query): exc is the exception that escapes
get_location_suggestions(q, reply, jerr) ==
    LET b == suggestions_try(q, reply, jerr)
    IN  IF b.exc # NoExc /\ "Exception" \in ExcClasses(b.exc)
        THEN [exc |-> NoExc, ret |-> <<>>, requests |-> b.requests,
              errors |-> <<Error("Error fetching suggestions: " \o b.exc)>>]
        ELSE [exc |-> b.exc, ret |-> b.ret, requests |-> b.requests,
              errors |-> <<>>]

(***************************************************************************)
(* main(): one render pass.  Streamlit runs main() from top to bottom on   *)
(* the first load and again on every interaction with a widget; the        *)
(* widget interacted with is the one whose call returns True (a button)    *)
(* or the new text (the text input) in that pass.  pc is the position in   *)
(* main: "idle" before the first pass, "suggest", "handle" and "presets"   *)
(* inside a pass, and "done", "returned" (an early return), "crashed" (an  *)
(* exception left main) or "rerun" (st.experimental_rerun) once it ended.  *)
(* ui is what the pass has rendered so far, http the requests it has       *)
(* issued, fetch_calls the calls of fetch_weather_data it has made;         *)
(* escaped tells whether an exception has left main in some pass so far.   *)
(***************************************************************************)
DEFAULT_LOCATIONS ==
    <<[name |-> "Ladakh", lat |-> 341526, lon |-> 775771],
      [name |-> "Arunachal Pradesh", lat |-> 282180, lon |-> 947278],
      [name |-> "Sikkim", lat |-> 273389, lon |-> 886065],
      [name |-> "Kashmir", lat |-> 340837, lon |-> 747973]>>

\* session_state.selected_location = None
NoSelection == [name |-> None, lat |-> 0, lon |-> 0]

Elem(kind, text) == [kind |-> kind, text |-> text]

SEARCH_BUTTON == "Search"
REFRESH_BUTTON == "Refresh Data"
TEXT_INPUT == "location_search"
suggestion_key(name) == "suggestion_" \o name

\* the results the geocoding service ranks first for the text typed
Ranked ==
    <<CHOOSE r \in ResultPool : r.name = "Leh",
      CHOOSE r \in ResultPool : r.name = "Lens",
      CHOOSE r \in ResultPool : r.name = "Lebanon",
      CHOOSE r \in ResultPool : r.name = "Le">>

\* the geocoding replies of a render pass: the n best results, n <= MaxShown
MainGeoReplies ==
    GeoRepliesOf({[has_results |-> FALSE, results |-> <<>>]}
                 \cup {[has_results |-> TRUE, results |-> SubSeq(Ranked, 1, n)] :
                          n \in 0..(IF MaxShown < 4 THEN MaxShown ELSE 4)})

PassEnded == pc \in {"done", "returned", "crashed", "rerun"}

\* a widget the last pass rendered, which the user can interact with
Rendered(key) == \E i \in 1..Len(ui) : ui[i].kind \in {"button", "text_input"}
                                       /\ ui[i].text = key

\* lines 166-201: a pass begins, on the first load, on a rerun, or on the
\* user's interaction with a widget the page shows
Begin ==
    /\ pc \in {"idle"} \cup {"done", "returned", "crashed", "rerun"}
    /\ \/ /\ pc \in {"idle", "rerun"}
          /\ widget' = "none"
          /\ search_query' = search_query
       \/ /\ pc \in {"done", "returned", "crashed"}
          /\ Rendered(TEXT_INPUT)
          /\ widget' = TEXT_INPUT
          /\ search_query' \in Queries \ {search_query}
       \/ /\ pc \in {"done", "returned", "crashed"}
          /\ \E i \in 1..Len(ui) : ui[i].kind = "button" /\ widget' = ui[i].text
          /\ search_query' = search_query
    /\ ui' = <<Elem("title", "Military Weather Monitoring System"),
               Elem("text_input", TEXT_INPUT), Elem("button", SEARCH_BUTTON)>>
    /\ http' = <<>>
    /\ fetch_calls' = <<>>
    /\ idx' = 0
    /\ pc' = "suggest"
    /\ UNCHANGED <<session_state, json_error, escaped>>
    /\ UNCHANGED <<alert_vars, code_vars, sugg_vars>>

\* the suggestion whose button returns True: the last one with the key
\* clicked (0: none)
clicked(suggestions, w) ==
    LET hits == {i \in 1..Len(suggestions) :
                    suggestion_key(suggestions[i].name) = w}
    IN  IF hits = {} THEN 0 ELSE CHOOSE i \in hits : \A j \in hits : j <= i

\* lines 203-215 with the geocoding reply given
show_suggestions(q, w, session, reply, jerr) ==
    IF q # "" /\ Len(q) >= 2
    THEN LET s == get_location_suggestions(q, reply, jerr)
             c == clicked(s.ret, w)
         IN  [exc |-> s.exc,
              ui |-> s.errors \o
                     (IF s.ret # <<>>
                      THEN <<Elem("markdown", "### Suggestions:")>> \o
                           [i \in 1..Len(s.ret) |->
                               Elem("button", suggestion_key(s.ret[i].name))]
                      ELSE <<>>),
              http |-> s.requests,
              session |-> IF c = 0 THEN session
                          ELSE [selected_location |-> s.ret[c],
                                search_query |-> s.ret[c].name]]
    ELSE [exc |-> NoExc, ui |-> <<>>, http |-> <<>>, session |-> session]

Suggest ==
    /\ pc = "suggest"
    /\ \E reply \in MainGeoReplies :
        LET r == show_suggestions(search_query, widget, session_state, reply,
                                  json_error)
        IN  /\ ui' = ui \o r.ui
            /\ http' = http \o r.http
            /\ session_state' = r.session
            /\ pc' = IF r.exc = NoExc THEN "handle" ELSE "crashed"
            /\ escaped' = (escaped \/ r.exc # NoExc)
    /\ UNCHANGED <<json_error, widget, search_query, idx, fetch_calls>>
    /\ UNCHANGED <<alert_vars, code_vars, sugg_vars>>

\* one call of fetch_weather_data, as fetch_calls records it
Call(at, name, reply, f) ==
    [at |-> at, name |-> name, reply |-> reply, ret |-> f.ret,
     errors |-> f.errors, requests |-> f.requests]

\* lines 224-231 and 252-259: fetch the weather of a location and show it
show_weather(name, lat, lon, reply, jerr) ==
    LET f == fetch_weather_data(lat, lon, reply, jerr)
        c == weather_card(name, f.ret)
    IN  [exc |-> IF Truthy(f.ret) THEN c.exc ELSE NoExc,
         ui |-> f.errors \o
                (IF Truthy(f.ret)
                 THEN <<Elem("success", "Found weather data for " \o name),
                        Elem("subheader", "Weather in " \o name)>> \o c.ui
                 ELSE <<Elem("error",
                             "Unable to fetch weather data for this location")>>),
         http |-> f.requests,
         calls |-> <<Call("search", name, reply, f)>>]

\* lines 261-264: the handlers of the try block
search_handlers(exc) ==
    IF "RequestException" \in ExcClasses(exc)
    THEN <<Elem("error", "Network error: " \o exc)>>
    ELSE IF "Exception" \in ExcClasses(exc)
    THEN <<Elem("error", "An error occurred: " \o exc)>>
    ELSE <<>>

\* lines 217-264 with the replies of the requests it issues given: what the
\* step renders, requests and leaves in the session state, whether main
\* returns in it
handle_search(q, w, session, greply, wreply, jerr) ==
    LET sel == session.selected_location
        untouched == [ui |-> <<>>, http |-> <<>>, calls |-> <<>>,
                      session |-> session, returned |-> FALSE]
    IN  IF ~(w = SEARCH_BUTTON \/ sel # NoSelection) THEN untouched
        ELSE IF sel # NoSelection
        THEN LET s == show_weather(sel.name, sel.lat, sel.lon, wreply, jerr)
             IN  IF s.exc = NoExc
                 THEN [untouched EXCEPT
                         !.ui = s.ui, !.http = s.http, !.calls = s.calls,
                         !.session = [session EXCEPT
                                         !.selected_location = NoSelection]]
                 ELSE [untouched EXCEPT
                         !.ui = s.ui \o search_handlers(s.exc),
                         !.http = s.http, !.calls = s.calls]
        ELSE LET geo == <<GeoUrl(q, 1)>>
             IN  IF greply.raised # NoExc
                 THEN [untouched EXCEPT
                         !.ui = search_handlers(greply.raised), !.http = geo]
                 ELSE IF ~greply.ok
                 THEN [untouched EXCEPT
                         !.ui = <<Elem("error",
                                       "Error accessing geocoding service")>>,
                         !.http = geo, !.returned = TRUE]
                 ELSE IF ~greply.parses
                 THEN [untouched EXCEPT
                         !.ui = search_handlers(jerr), !.http = geo]
                 ELSE IF ~greply.body.has_results \/ greply.body.results = <<>>
                 THEN [untouched EXCEPT
                         !.ui = <<Elem("warning", "No results found for '"
                                                   \o q \o "'")>>,
                         !.http = geo, !.returned = TRUE]
                 ELSE LET location == greply.body.results[1]
                          s == show_weather(location.name, location.latitude,
                                            location.longitude, wreply, jerr)
                      IN  [untouched EXCEPT
                             !.ui = s.ui \o (IF s.exc = NoExc THEN <<>>
                                             ELSE search_handlers(s.exc)),
                             !.http = geo \o s.http, !.calls = s.calls]

HandleSearch ==
    /\ pc = "handle"
    /\ \E greply \in MainGeoReplies, wreply \in WeatherReplies :
        LET r == handle_search(search_query, widget, session_state, greply,
                               wreply, json_error)
        IN  /\ ui' = ui \o r.ui
            /\ http' = http \o r.http
            /\ fetch_calls' = fetch_calls \o r.calls
            /\ session_state' = r.session
            /\ pc' = IF r.returned THEN "returned" ELSE "presets"
    /\ UNCHANGED <<json_error, widget, search_query, idx, escaped>>
    /\ UNCHANGED <<alert_vars, code_vars, sugg_vars>>

\* lines 274-279, one iteration of the loop over DEFAULT_LOCATIONS
show_preset(location, reply, jerr) ==
    LET f == fetch_weather_data(location.lat, location.lon, reply, jerr)
        c == weather_card(location.name, f.ret)
    IN  [exc |-> IF Truthy(f.ret) THEN c.exc ELSE NoExc,
         ui |-> f.errors \o
                (IF Truthy(f.ret)
                 THEN <<Elem("expander", location.name)>> \o c.ui
                 ELSE <<>>),
         http |-> f.requests,
         calls |-> <<Call("preset", location.name, reply, f)>>]

Preset ==
    /\ pc = "presets"
    /\ idx < Len(DEFAULT_LOCATIONS)
    /\ \E reply \in PresetReplies :
        LET r == show_preset(DEFAULT_LOCATIONS[idx + 1], reply, json_error)
        IN  /\ ui' = ui \o r.ui
            /\ http' = http \o r.http
            /\ fetch_calls' = fetch_calls \o r.calls
            /\ pc' = IF r.exc = NoExc THEN "presets" ELSE "crashed"
            /\ escaped' = (escaped \/ r.exc # NoExc)
    /\ idx' = idx + 1
    /\ UNCHANGED <<session_state, json_error, widget, search_query>>
    /\ UNCHANGED <<alert_vars, code_vars, sugg_vars>>

\* lines 281-283: the refresh button
Finish ==
    /\ pc = "presets"
    /\ idx = Len(DEFAULT_LOCATIONS)
    /\ ui' = ui \o <<Elem("button", REFRESH_BUTTON)>>
    /\ pc' = IF widget = REFRESH_BUTTON THEN "rerun" ELSE "done"
    /\ UNCHANGED <<session_state, json_error, widget, search_query, idx, http,
                   fetch_calls, escaped>>
    /\ UNCHANGED <<alert_vars, code_vars, sugg_vars>>

(***************************************************************************)
(* Specifications.  Spec is the page: render passes of main().  SpecAlert, *)
(* SpecCodes and SpecSuggest each call one pure function (or the geocoding *)
(* client) on inputs drawn from the bounded sets; the variables of the     *)
(* other parts stay at their initial values.                               *)
(***************************************************************************)
PendingStatus == <<Pending, Pending>>

AlertIdle ==
    temp = 0 /\ wind_speed = 0 /\ status = PendingStatus /\ message = Pending

CodeIdle == code = 0 /\ description = Pending

SuggestIdle ==
    /\ query = ""
    /\ geo_reply = [raised |-> NoExc, ok |-> TRUE, parses |-> TRUE,
                    body |-> NoGeoBody]
    /\ sugg_call = <<>>

MainIdle ==
    /\ session_state = [search_query |-> "", selected_location |-> NoSelection]
    /\ pc = "idle"
    /\ widget = "none"
    /\ search_query = ""
    /\ idx = 0
    /\ ui = <<>>
    /\ http = <<>>
    /\ fetch_calls = <<>>
    /\ escaped = FALSE

Init ==
    /\ MainIdle
    /\ json_error \in JsonErrors
    /\ AlertIdle /\ CodeIdle /\ SuggestIdle

Next == Begin \/ Suggest \/ HandleSearch \/ Preset \/ Finish

Spec == Init /\ [][Next]_vars

\* lines 126-128 of weather_card: both classifiers on the same reading
Classify ==
    /\ status = PendingStatus
    /\ status' = get_alert_status(temp, wind_speed)
    /\ message' = get_alert_message(temp, wind_speed)
    /\ UNCHANGED <<temp, wind_speed, code_vars, sugg_vars, main_vars>>

InitAlert ==
    /\ temp \in Temps
    /\ wind_speed \in Winds
    /\ status = PendingStatus /\ message = Pending
    /\ MainIdle /\ json_error = "JSONDecodeError" /\ CodeIdle /\ SuggestIdle

SpecAlert == InitAlert /\ [][Classify]_vars

\* line 107 of weather_card
Describe ==
    /\ description = Pending
    /\ description' = get_weather_description(code)
    /\ UNCHANGED <<code, alert_vars, sugg_vars, main_vars>>

InitCodes ==
    /\ code \in Codes
    /\ description = Pending
    /\ MainIdle /\ json_error = "JSONDecodeError" /\ AlertIdle /\ SuggestIdle

SpecCodes == InitCodes /\ [][Describe]_vars

\* line 205 of main: the geocoding client called on the text typed
CallSuggest ==
    /\ sugg_call = <<>>
    /\ sugg_call' = <<get_location_suggestions(query, geo_reply, json_error)>>
    /\ UNCHANGED <<query, geo_reply, alert_vars, code_vars, main_vars>>

InitSuggest ==
    /\ query \in Queries
    /\ geo_reply \in GeoReplies
    /\ sugg_call = <<>>
    /\ json_error \in JsonErrors
    /\ MainIdle /\ AlertIdle /\ CodeIdle

SpecSuggest == InitSuggest /\ [][CallSuggest]_vars

(***************************************************************************)
(* Properties of the alert classifiers (SpecAlert).                        *)
(***************************************************************************)
Classified == status # PendingStatus

\* C1: get_alert_message returns the message of the first rule that matches,
\* in the order extreme cold (temp < -10), extreme heat (temp > 40), high wind
\* (wind > 20), cold (temp < 0), hot (temp > 35), moderate wind (wind > 15),
\* normal; every comparison is strict, so -10 exactly is never extreme cold
\* and 40 exactly never extreme heat.  Stated rule by rule: a message is
\* returned exactly when its rule matches and no earlier rule does.
C1_FirstMatchWins ==
    Classified =>
        /\ (message = "Extreme cold conditions - Exercise caution")
              <=> (temp < Deg(-10))
        /\ (message = "Extreme heat conditions - Limit exposure")
              <=> (temp > Deg(40))
        /\ (message = "High wind speeds - Operations may be affected")
              <=> (temp >= Deg(-10) /\ temp <= Deg(40) /\ wind_speed > Deg(20))
        /\ (message = "Cold conditions - Take necessary precautions")
              <=> (temp >= Deg(-10) /\ temp < Deg(0) /\ wind_speed <= Deg(20))
        /\ (message = "Hot conditions - Stay hydrated")
              <=> (temp > Deg(35) /\ temp <= Deg(40) /\ wind_speed <= Deg(20))
        /\ (message = "Moderate wind speeds - Monitor conditions")
              <=> (temp >= Deg(0) /\ temp <= Deg(35)
                   /\ wind_speed > Deg(15) /\ wind_speed <= Deg(20))
        /\ (message = "Normal operating conditions")
              <=> (temp >= Deg(0) /\ temp <= Deg(35) /\ wind_speed <= Deg(15))
        /\ (temp = Deg(-10)
              => message # "Extreme cold conditions - Exercise caution")
        /\ (temp = Deg(40)
              => message # "Extreme heat conditions - Limit exposure")

\* a reading at -10 exactly with a high wind: the extreme-cold rule does not
\* match, and of the two rules that do (high wind, cold) the earlier one wins
C1_Witness ==
    /\ Classified
    /\ temp = Deg(-10)
    /\ wind_speed > Deg(20)
    /\ message = "High wind speeds - Operations may be affected"

\* the tier of the rule a message belongs to
TierOfMessage(m) ==
    CASE m \in {"Extreme cold conditions - Exercise caution",
                "Extreme heat conditions - Limit exposure",
                "High wind speeds - Operations may be affected"}
            -> <<"Critical", "red">>
      [] m \in {"Cold conditions - Take necessary precautions",
                "Hot conditions - Stay hydrated",
                "Moderate wind speeds - Monitor conditions"}
            -> <<"Warning", "yellow">>
      [] m = "Normal operating conditions" -> <<"Normal", "green">>
      [] OTHER -> PendingStatus

\* C2: the tier get_alert_status returns is the tier of the rule whose message
\* get_alert_message returns; temp < -10 is Critical whatever the wind; Normal
\* is returned exactly when 0 <= temp <= 35 and wind_speed <= 15.
C2_TierMatchesMessage ==
    Classified =>
        /\ status = TierOfMessage(message)
        /\ (temp < Deg(-10) => status = <<"Critical", "red">>)
        /\ (status = <<"Normal", "green">>)
              <=> (temp >= Deg(0) /\ temp <= Deg(35) /\ wind_speed <= Deg(15))

\* a wind of 20 exactly in mild weather: a Warning, not yet Critical
C2_Witness ==
    /\ Classified
    /\ wind_speed = Deg(20)
    /\ temp = Deg(20)
    /\ status = <<"Warning", "yellow">>
    /\ message = "Moderate wind speeds - Monitor conditions"

(***************************************************************************)
(* Properties of the weather code table (SpecCodes).                       *)
(***************************************************************************)
Described == description # Pending

\* the codes the table of the source lists
ListedCodes ==
    {0, 1, 2, 3, 45, 48, 51, 53, 55, 61, 63, 65, 71, 73, 75, 77, 80, 81, 82,
     85, 86, 95, 96, 99}

\* what get_weather_description is claimed to do with a table of n entries:
\* the table has n entries, a code in it gets its label (never 'Unknown'),
\* every other integer, negative ones included, gets 'Unknown'
DescribesTableOf(n) ==
    /\ Cardinality(DOMAIN WEATHER_CODES) = n
    /\ Cardinality({c \in Codes : get_weather_description(c) # "Unknown"}) = n
    /\ (code \in ListedCodes
          => description = WEATHER_CODES[code] /\ description # "Unknown")
    /\ (code \notin ListedCodes => description = "Unknown")
    /\ (code = 71 => description = "Slight snow")

\* C3 (as amended): get_weather_description is total over the integers: for
\* every code of the fixed 24-entry table it returns that code's label, and
\* for every other integer, negative ones included, exactly 'Unknown'.
C3_TableOf24 == Described => DescribesTableOf(24)

\* C3 (as claimed): the same with a table of 29 entries.
C3_TableOf29 == Described => DescribesTableOf(29)

\* a negative code described as 'Unknown'
C3_Witness == Described /\ code < 0 /\ description = "Unknown"

(***************************************************************************)
(* Properties of the geocoding client (SpecSuggest).                       *)
(***************************************************************************)
Suggested == sugg_call # <<>>

\* the request of the call fails: requests.get raises, the status is an
\* error, or the body cannot be parsed
GeoFails == geo_reply.raised # NoExc \/ ~geo_reply.ok \/ ~geo_reply.parses

\* the results of the reply, when the request succeeds (<<>>: none)
GeoResults ==
    IF GeoFails \/ ~geo_reply.body.has_results THEN <<>>
    ELSE geo_reply.body.results

\* C5: get_location_suggestions returns the empty list in each failure case:
\* a query of fewer than 2 characters (no request, no message), a response
\* without results, a request or parse error (exactly one error message); no
\* exception escapes it.
C5_EmptyOnFailure ==
    Suggested =>
        LET c == sugg_call[1]
        IN  /\ c.exc = NoExc
            /\ (Len(query) < 2
                  => c.ret = <<>> /\ c.requests = <<>> /\ c.errors = <<>>)
            /\ (Len(query) >= 2 /\ ~GeoFails /\ GeoResults = <<>>
                  => c.ret = <<>> /\ c.errors = <<>> /\ Len(c.requests) = 1)
            /\ (Len(query) >= 2 /\ GeoFails
                  => /\ c.ret = <<>>
                     /\ Len(c.errors) = 1
                     /\ c.errors[1].kind = "error"
                     /\ Len(c.requests) = 1)

\* a body that cannot be parsed, the error being a plain ValueError: one
\* message, the empty list
C5_Witness ==
    /\ Suggested
    /\ Len(query) >= 2
    /\ geo_reply.raised = NoExc /\ geo_reply.ok /\ ~geo_reply.parses
    /\ json_error = "ValueError"
    /\ sugg_call[1].ret = <<>>
    /\ Len(sugg_call[1].errors) = 1

\* the name the claim gives a suggestion
ClaimedName(r) ==
    IF r.admin1 # None /\ r.country # None
    THEN r.name \o ", " \o r.admin1 \o ", " \o r.country
    ELSE IF r.admin1 # None THEN r.name \o ", " \o r.admin1
    ELSE IF r.country # None THEN r.name \o ", " \o r.country
    ELSE r.name

\* C9: for a query of at least 2 characters and a response with n >= 1
\* results, get_location_suggestions returns n suggestions in the upstream
\* order, the i-th with the i-th result's coordinates and the name
\* 'Name[, Admin1][, Country]'.
C9_SuggestionsInOrder ==
    (Suggested /\ Len(query) >= 2 /\ GeoResults # <<>>) =>
        LET ret == sugg_call[1].ret
        IN  /\ Len(ret) = Len(GeoResults)
            /\ \A i \in 1..Len(GeoResults) :
                  /\ ret[i].lat = GeoResults[i].latitude
                  /\ ret[i].lon = GeoResults[i].longitude
                  /\ ret[i].name = ClaimedName(GeoResults[i])

\* the query "Le" answered by two results
C9_Witness ==
    /\ Suggested
    /\ query = "Le"
    /\ Len(GeoResults) = 2
    /\ Len(sugg_call[1].ret) = 2
    /\ sugg_call[1].ret[1].name = "Lens, France"
    /\ sugg_call[1].ret[2].name = "Leh, Ladakh, India"

(***************************************************************************)
(* Properties of the render pass (Spec).                                   *)
(***************************************************************************)
\* the names of the preset locations fetched so far in the pass, in order
PresetNames ==
    LET IsPreset(c) == c.at = "preset"
        calls == SelectSeq(fetch_calls, IsPreset)
    IN  [i \in 1..Len(calls) |-> calls[i].name]

DefaultNames == [i \in 1..Len(DEFAULT_LOCATIONS) |-> DEFAULT_LOCATIONS[i].name]

\* the pass has rendered a weather card for the location
HasCard(name) ==
    \E i \in 1..Len(ui) : ui[i].kind = "card" /\ ui[i].text = name

Shown(elem) == \E i \in 1..Len(ui) : ui[i] = elem

TimedOut(c) == c.reply.raised = "Timeout"

\* C4: every call of fetch_weather_data issues exactly one request; a
\* timeout, a request error (an HTTP error status included) or an unparsable
\* body gives exactly one error message of the matching kind (timeout /
\* fetching / parsing) and None; a reply that parses gives the parsed body
\* and no message.
C4_OneRequestMatchingMessage ==
    \A i \in 1..Len(fetch_calls) :
        LET c == fetch_calls[i]
            r == c.reply
        IN  /\ Len(c.requests) = 1
            /\ (r.raised = "Timeout"
                  => /\ c.ret = PyNone
                     /\ c.errors
                          = <<Error("Request timed out. Please try again.")>>)
            /\ (r.raised = "ConnectionError" \/ (r.raised = NoExc /\ ~r.ok)
                  => /\ c.ret = PyNone
                     /\ Len(c.errors) = 1
                     /\ c.errors[1] \in
                          {Error("Error fetching weather data: " \o e) :
                              e \in {"ConnectionError", "HTTPError"}})
            /\ (r.raised = NoExc /\ r.ok /\ ~r.parses
                  => /\ c.ret = PyNone
                     /\ Len(c.errors) = 1
                     /\ c.errors[1] \in
                          {Error("Error parsing weather data: " \o e) :
                              e \in JsonErrors})
            /\ (r.raised = NoExc /\ r.ok /\ r.parses
                  => c.ret = r.body /\ c.errors = <<>>)

\* C6: in every render pass, whatever the search text, the button pressed
\* and the outcome of the geocoding and search-weather requests, the
\* Strategic Locations section is reached and each of the four preset
\* locations is fetched exactly once, in list order.  Stated of the runs in
\* which no exception has left main, so that what refutes it is the search
\* step alone.
C6_PresetsAlwaysFetched ==
    (PassEnded /\ ~escaped) => PresetNames = DefaultNames

\* C7: no exception propagates out of a render pass, whatever the outcome of
\* the requests made in the suggestion step, the search step and the loop
\* over the preset locations.
C7_NoExceptionEscapes == pc # "crashed"

\* C8: a weather card is rendered for a location if and only if the fetch
\* made for it in the pass returned data; a fetch that times out shows the
\* timeout message and no card, and the remaining preset locations are still
\* fetched (and get their cards when their own fetches return data).
C8_CardIffData ==
    /\ \A i \in 1..Len(fetch_calls) :
          LET c == fetch_calls[i]
          IN  /\ HasCard(c.name) <=> Truthy(c.ret)
              /\ TimedOut(c)
                   => /\ Shown(Error("Request timed out. Please try again."))
                      /\ ~HasCard(c.name)
    /\ (PassEnded /\ \E i \in 1..Len(fetch_calls) : TimedOut(fetch_calls[i]))
          => PresetNames = DefaultNames

\* C10: at the end of every render pass session_state.selected_location is
\* None, whatever the weather fetch and the card did; hence a location chosen
\* by clicking a suggestion is fetched in the pass of the click only: a pass
\* begun otherwise (first load, rerun, typing, the refresh button) makes no
\* search-weather fetch.  Stated of the runs in which no exception has left
\* main, so that what refutes it is the search step alone.
C10_SelectionReset ==
    ~escaped =>
        /\ PassEnded => session_state.selected_location = NoSelection
        /\ widget \in {"none", TEXT_INPUT, REFRESH_BUTTON}
              => \A i \in 1..Len(fetch_calls) : fetch_calls[i].at # "search"

====
